---- MODULE Spec2Model ----
(***************************************************************************)
(* gix-scripts: a run of main(): the listing of the tracked text files, a   *)
(* window of them compared file by file by compare_two_blames, then the     *)
(* report and the summary.                                                  *)
(* An output is a sequence of characters. A character is a one-character    *)
(* string when it is an ASCII character (the tab "\t", the form feed "\f",  *)
(* the carriage return "\r" and the line feed "\n" included), and the       *)
(* string "U+XXXX" of its code point in hexadecimal otherwise ("U+000B",    *)
(* "U+0661"). InvalidByte is a byte that makes the line it is in invalid    *)
(* UTF-8.                                                                   *)
(***************************************************************************)
EXTENDS Integers, Sequences, FiniteSets, TLC

\* ------------------------------------------------------------------ bounds
MaxLines == 2
MaxFiles == 2
MaxSkip == 1

\* --------------------------------------------------------- bytes and lines
InvalidByte == "0xFF"
NewLine == "\n"

HexDigits == {"0", "1", "2", "3", "4", "5", "6", "7", "8", "9",
              "a", "b", "c", "d", "e", "f"}

\* \d of the regex crate is Unicode-aware: the decimal digits of every script
\* (general category Nd, Unicode 16.0)
AsciiDigits == {"0", "1", "2", "3", "4", "5", "6", "7", "8", "9"}
UnicodeDigits ==
    {
     "U+0660", "U+0661", "U+0662", "U+0663", "U+0664", "U+0665", "U+0666", "U+0667", "U+0668", "U+0669",
     "U+06F0", "U+06F1", "U+06F2", "U+06F3", "U+06F4", "U+06F5", "U+06F6", "U+06F7", "U+06F8", "U+06F9",
     "U+07C0", "U+07C1", "U+07C2", "U+07C3", "U+07C4", "U+07C5", "U+07C6", "U+07C7", "U+07C8", "U+07C9",
     "U+0966", "U+0967", "U+0968", "U+0969", "U+096A", "U+096B", "U+096C", "U+096D", "U+096E", "U+096F",
     "U+09E6", "U+09E7", "U+09E8", "U+09E9", "U+09EA", "U+09EB", "U+09EC", "U+09ED", "U+09EE", "U+09EF",
     "U+0A66", "U+0A67", "U+0A68", "U+0A69", "U+0A6A", "U+0A6B", "U+0A6C", "U+0A6D", "U+0A6E", "U+0A6F",
     "U+0AE6", "U+0AE7", "U+0AE8", "U+0AE9", "U+0AEA", "U+0AEB", "U+0AEC", "U+0AED", "U+0AEE", "U+0AEF",
     "U+0B66", "U+0B67", "U+0B68", "U+0B69", "U+0B6A", "U+0B6B", "U+0B6C", "U+0B6D", "U+0B6E", "U+0B6F",
     "U+0BE6", "U+0BE7", "U+0BE8", "U+0BE9", "U+0BEA", "U+0BEB", "U+0BEC", "U+0BED", "U+0BEE", "U+0BEF",
     "U+0C66", "U+0C67", "U+0C68", "U+0C69", "U+0C6A", "U+0C6B", "U+0C6C", "U+0C6D", "U+0C6E", "U+0C6F",
     "U+0CE6", "U+0CE7", "U+0CE8", "U+0CE9", "U+0CEA", "U+0CEB", "U+0CEC", "U+0CED", "U+0CEE", "U+0CEF",
     "U+0D66", "U+0D67", "U+0D68", "U+0D69", "U+0D6A", "U+0D6B", "U+0D6C", "U+0D6D", "U+0D6E", "U+0D6F",
     "U+0DE6", "U+0DE7", "U+0DE8", "U+0DE9", "U+0DEA", "U+0DEB", "U+0DEC", "U+0DED", "U+0DEE", "U+0DEF",
     "U+0E50", "U+0E51", "U+0E52", "U+0E53", "U+0E54", "U+0E55", "U+0E56", "U+0E57", "U+0E58", "U+0E59",
     "U+0ED0", "U+0ED1", "U+0ED2", "U+0ED3", "U+0ED4", "U+0ED5", "U+0ED6", "U+0ED7", "U+0ED8", "U+0ED9",
     "U+0F20", "U+0F21", "U+0F22", "U+0F23", "U+0F24", "U+0F25", "U+0F26", "U+0F27", "U+0F28", "U+0F29",
     "U+1040", "U+1041", "U+1042", "U+1043", "U+1044", "U+1045", "U+1046", "U+1047", "U+1048", "U+1049",
     "U+1090", "U+1091", "U+1092", "U+1093", "U+1094", "U+1095", "U+1096", "U+1097", "U+1098", "U+1099",
     "U+17E0", "U+17E1", "U+17E2", "U+17E3", "U+17E4", "U+17E5", "U+17E6", "U+17E7", "U+17E8", "U+17E9",
     "U+1810", "U+1811", "U+1812", "U+1813", "U+1814", "U+1815", "U+1816", "U+1817", "U+1818", "U+1819",
     "U+1946", "U+1947", "U+1948", "U+1949", "U+194A", "U+194B", "U+194C", "U+194D", "U+194E", "U+194F",
     "U+19D0", "U+19D1", "U+19D2", "U+19D3", "U+19D4", "U+19D5", "U+19D6", "U+19D7", "U+19D8", "U+19D9",
     "U+1A80", "U+1A81", "U+1A82", "U+1A83", "U+1A84", "U+1A85", "U+1A86", "U+1A87", "U+1A88", "U+1A89",
     "U+1A90", "U+1A91", "U+1A92", "U+1A93", "U+1A94", "U+1A95", "U+1A96", "U+1A97", "U+1A98", "U+1A99",
     "U+1B50", "U+1B51", "U+1B52", "U+1B53", "U+1B54", "U+1B55", "U+1B56", "U+1B57", "U+1B58", "U+1B59",
     "U+1BB0", "U+1BB1", "U+1BB2", "U+1BB3", "U+1BB4", "U+1BB5", "U+1BB6", "U+1BB7", "U+1BB8", "U+1BB9",
     "U+1C40", "U+1C41", "U+1C42", "U+1C43", "U+1C44", "U+1C45", "U+1C46", "U+1C47", "U+1C48", "U+1C49",
     "U+1C50", "U+1C51", "U+1C52", "U+1C53", "U+1C54", "U+1C55", "U+1C56", "U+1C57", "U+1C58", "U+1C59",
     "U+A620", "U+A621", "U+A622", "U+A623", "U+A624", "U+A625", "U+A626", "U+A627", "U+A628", "U+A629",
     "U+A8D0", "U+A8D1", "U+A8D2", "U+A8D3", "U+A8D4", "U+A8D5", "U+A8D6", "U+A8D7", "U+A8D8", "U+A8D9",
     "U+A900", "U+A901", "U+A902", "U+A903", "U+A904", "U+A905", "U+A906", "U+A907", "U+A908", "U+A909",
     "U+A9D0", "U+A9D1", "U+A9D2", "U+A9D3", "U+A9D4", "U+A9D5", "U+A9D6", "U+A9D7", "U+A9D8", "U+A9D9",
     "U+A9F0", "U+A9F1", "U+A9F2", "U+A9F3", "U+A9F4", "U+A9F5", "U+A9F6", "U+A9F7", "U+A9F8", "U+A9F9",
     "U+AA50", "U+AA51", "U+AA52", "U+AA53", "U+AA54", "U+AA55", "U+AA56", "U+AA57", "U+AA58", "U+AA59",
     "U+ABF0", "U+ABF1", "U+ABF2", "U+ABF3", "U+ABF4", "U+ABF5", "U+ABF6", "U+ABF7", "U+ABF8", "U+ABF9",
     "U+FF10", "U+FF11", "U+FF12", "U+FF13", "U+FF14", "U+FF15", "U+FF16", "U+FF17", "U+FF18", "U+FF19",
     "U+104A0", "U+104A1", "U+104A2", "U+104A3", "U+104A4", "U+104A5", "U+104A6", "U+104A7", "U+104A8", "U+104A9",
     "U+10D30", "U+10D31", "U+10D32", "U+10D33", "U+10D34", "U+10D35", "U+10D36", "U+10D37", "U+10D38", "U+10D39",
     "U+10D40", "U+10D41", "U+10D42", "U+10D43", "U+10D44", "U+10D45", "U+10D46", "U+10D47", "U+10D48", "U+10D49",
     "U+11066", "U+11067", "U+11068", "U+11069", "U+1106A", "U+1106B", "U+1106C", "U+1106D", "U+1106E", "U+1106F",
     "U+110F0", "U+110F1", "U+110F2", "U+110F3", "U+110F4", "U+110F5", "U+110F6", "U+110F7", "U+110F8", "U+110F9",
     "U+11136", "U+11137", "U+11138", "U+11139", "U+1113A", "U+1113B", "U+1113C", "U+1113D", "U+1113E", "U+1113F",
     "U+111D0", "U+111D1", "U+111D2", "U+111D3", "U+111D4", "U+111D5", "U+111D6", "U+111D7", "U+111D8", "U+111D9",
     "U+112F0", "U+112F1", "U+112F2", "U+112F3", "U+112F4", "U+112F5", "U+112F6", "U+112F7", "U+112F8", "U+112F9",
     "U+11450", "U+11451", "U+11452", "U+11453", "U+11454", "U+11455", "U+11456", "U+11457", "U+11458", "U+11459",
     "U+114D0", "U+114D1", "U+114D2", "U+114D3", "U+114D4", "U+114D5", "U+114D6", "U+114D7", "U+114D8", "U+114D9",
     "U+11650", "U+11651", "U+11652", "U+11653", "U+11654", "U+11655", "U+11656", "U+11657", "U+11658", "U+11659",
     "U+116C0", "U+116C1", "U+116C2", "U+116C3", "U+116C4", "U+116C5", "U+116C6", "U+116C7", "U+116C8", "U+116C9",
     "U+116D0", "U+116D1", "U+116D2", "U+116D3", "U+116D4", "U+116D5", "U+116D6", "U+116D7", "U+116D8", "U+116D9",
     "U+116DA", "U+116DB", "U+116DC", "U+116DD", "U+116DE", "U+116DF", "U+116E0", "U+116E1", "U+116E2", "U+116E3",
     "U+11730", "U+11731", "U+11732", "U+11733", "U+11734", "U+11735", "U+11736", "U+11737", "U+11738", "U+11739",
     "U+118E0", "U+118E1", "U+118E2", "U+118E3", "U+118E4", "U+118E5", "U+118E6", "U+118E7", "U+118E8", "U+118E9",
     "U+11950", "U+11951", "U+11952", "U+11953", "U+11954", "U+11955", "U+11956", "U+11957", "U+11958", "U+11959",
     "U+11BF0", "U+11BF1", "U+11BF2", "U+11BF3", "U+11BF4", "U+11BF5", "U+11BF6", "U+11BF7", "U+11BF8", "U+11BF9",
     "U+11C50", "U+11C51", "U+11C52", "U+11C53", "U+11C54", "U+11C55", "U+11C56", "U+11C57", "U+11C58", "U+11C59",
     "U+11D50", "U+11D51", "U+11D52", "U+11D53", "U+11D54", "U+11D55", "U+11D56", "U+11D57", "U+11D58", "U+11D59",
     "U+11DA0", "U+11DA1", "U+11DA2", "U+11DA3", "U+11DA4", "U+11DA5", "U+11DA6", "U+11DA7", "U+11DA8", "U+11DA9",
     "U+11F50", "U+11F51", "U+11F52", "U+11F53", "U+11F54", "U+11F55", "U+11F56", "U+11F57", "U+11F58", "U+11F59",
     "U+16130", "U+16131", "U+16132", "U+16133", "U+16134", "U+16135", "U+16136", "U+16137", "U+16138", "U+16139",
     "U+16A60", "U+16A61", "U+16A62", "U+16A63", "U+16A64", "U+16A65", "U+16A66", "U+16A67", "U+16A68", "U+16A69",
     "U+16AC0", "U+16AC1", "U+16AC2", "U+16AC3", "U+16AC4", "U+16AC5", "U+16AC6", "U+16AC7", "U+16AC8", "U+16AC9",
     "U+16B50", "U+16B51", "U+16B52", "U+16B53", "U+16B54", "U+16B55", "U+16B56", "U+16B57", "U+16B58", "U+16B59",
     "U+16D70", "U+16D71", "U+16D72", "U+16D73", "U+16D74", "U+16D75", "U+16D76", "U+16D77", "U+16D78", "U+16D79",
     "U+1CCF0", "U+1CCF1", "U+1CCF2", "U+1CCF3", "U+1CCF4", "U+1CCF5", "U+1CCF6", "U+1CCF7", "U+1CCF8", "U+1CCF9",
     "U+1D7CE", "U+1D7CF", "U+1D7D0", "U+1D7D1", "U+1D7D2", "U+1D7D3", "U+1D7D4", "U+1D7D5", "U+1D7D6", "U+1D7D7",
     "U+1D7D8", "U+1D7D9", "U+1D7DA", "U+1D7DB", "U+1D7DC", "U+1D7DD", "U+1D7DE", "U+1D7DF", "U+1D7E0", "U+1D7E1",
     "U+1D7E2", "U+1D7E3", "U+1D7E4", "U+1D7E5", "U+1D7E6", "U+1D7E7", "U+1D7E8", "U+1D7E9", "U+1D7EA", "U+1D7EB",
     "U+1D7EC", "U+1D7ED", "U+1D7EE", "U+1D7EF", "U+1D7F0", "U+1D7F1", "U+1D7F2", "U+1D7F3", "U+1D7F4", "U+1D7F5",
     "U+1D7F6", "U+1D7F7", "U+1D7F8", "U+1D7F9", "U+1D7FA", "U+1D7FB", "U+1D7FC", "U+1D7FD", "U+1D7FE", "U+1D7FF",
     "U+1E140", "U+1E141", "U+1E142", "U+1E143", "U+1E144", "U+1E145", "U+1E146", "U+1E147", "U+1E148", "U+1E149",
     "U+1E2F0", "U+1E2F1", "U+1E2F2", "U+1E2F3", "U+1E2F4", "U+1E2F5", "U+1E2F6", "U+1E2F7", "U+1E2F8", "U+1E2F9",
     "U+1E4F0", "U+1E4F1", "U+1E4F2", "U+1E4F3", "U+1E4F4", "U+1E4F5", "U+1E4F6", "U+1E4F7", "U+1E4F8", "U+1E4F9",
     "U+1E5F1", "U+1E5F2", "U+1E5F3", "U+1E5F4", "U+1E5F5", "U+1E5F6", "U+1E5F7", "U+1E5F8", "U+1E5F9", "U+1E5FA",
     "U+1E950", "U+1E951", "U+1E952", "U+1E953", "U+1E954", "U+1E955", "U+1E956", "U+1E957", "U+1E958", "U+1E959",
     "U+1FBF0", "U+1FBF1", "U+1FBF2", "U+1FBF3", "U+1FBF4", "U+1FBF5", "U+1FBF6", "U+1FBF7", "U+1FBF8", "U+1FBF9"
    }
Digits == AsciiDigits \cup UnicodeDigits

\* \s of the regex crate and char::is_whitespace: the property White_Space.
\* The line feed is in it too and never stands inside a line.
WhiteSpace ==
    {"\t", "\n", "U+000B", "\f", "\r", " ", "U+0085", "U+00A0", "U+1680",
     "U+2000", "U+2001", "U+2002", "U+2003", "U+2004", "U+2005", "U+2006",
     "U+2007", "U+2008", "U+2009", "U+200A", "U+2028", "U+2029", "U+202F",
     "U+205F", "U+3000"}
NotParenOrCaret(c) == c \notin {"(", "^", ")"}

\* The lines the external tools are taken to print:
\*   LineGit     ^abc123 s<CR>(A 1) f   white space that is not a blank
\*   LineGix     abc1 1 1 f
\*   LineGixTok  abd1 <U+0662> x 2 g    a digit that is not an ASCII digit
\*   LineBadTok  abc1 1 x<CR>y 2 f      white space inside the optional token
LineGit == <<"^", "a", "b", "c", "1", "2", "3", " ", "s", "\r", "(", "A", " ", "1", ")", " ", "f">>
LineGix == <<"a", "b", "c", "1", " ", "1", " ", "1", " ", "f">>
LineGixTok == <<"a", "b", "d", "1", " ", "U+0662", " ", "x", " ", "2", " ", "g">>
LineBadTok == <<"a", "b", "c", "1", " ", "1", " ", "x", "\r", "y", " ", "2", " ", "f">>
LineEmpty == <<>>
LineBadUtf8 == <<"f", InvalidByte>>

LinePool == {LineGit, LineGix, LineGixTok, LineBadTok, LineEmpty, LineBadUtf8}

RECURSIVE SeqsUpTo(_, _)
SeqsUpTo(S, n) ==
    IF n = 0 THEN {<<>>}
    ELSE LET shorter == SeqsUpTo(S, n - 1)
         IN  shorter \cup {Append(s, x) : s \in {t \in shorter : Len(t) = n - 1}, x \in S}

\* What a tool writes: every line followed by a line terminator.
RECURSIVE RawOutput(_)
RawOutput(ls) ==
    IF ls = <<>> THEN <<>>
    ELSE Head(ls) \o <<NewLine>> \o RawOutput(Tail(ls))

Outputs == {RawOutput(ls) : ls \in SeqsUpTo(LinePool, MaxLines)}

\* BufRead::lines over the captured bytes: the segments between line
\* terminators, empty segments included, a carriage return before the
\* terminator removed, no segment after a final terminator.
StripCR(line) ==
    IF Len(line) > 0 /\ line[Len(line)] = "\r" THEN SubSeq(line, 1, Len(line) - 1) ELSE line

RECURSIVE SplitLinesRec(_, _, _)
SplitLinesRec(bytes, i, current) ==
    IF i > Len(bytes)
    THEN IF current = <<>> THEN <<>> ELSE <<current>>
    ELSE IF bytes[i] = NewLine
         THEN <<StripCR(current)>> \o SplitLinesRec(bytes, i + 1, <<>>)
         ELSE SplitLinesRec(bytes, i + 1, Append(current, bytes[i]))

\* a split that drops the empty lines
RECURSIVE DropEmpty(_)
DropEmpty(lines) ==
    IF lines = <<>> THEN <<>>
    ELSE (IF Head(lines) = <<>> THEN <<>> ELSE <<Head(lines)>>) \o DropEmpty(Tail(lines))

SplitLinesDroppingEmpty(bytes, i, current) == DropEmpty(SplitLinesRec(bytes, i, current))

\* the split compare_two_blames uses, from byte i on, current being the line
\* read so far
SplitLines(bytes, i, current) == SplitLinesRec(bytes, i, current)

Lines(bytes) == SplitLines(bytes, 1, <<>>)

\* line.expect("could not decode line") succeeds on every line
Decodes(lines) ==
    \A i \in 1..Len(lines) : \A k \in 1..Len(lines[i]) : lines[i][k] # InvalidByte

\* ----------------------------------------------------------------- regexes
\* The end of the run [0-9a-f]+ that starts at h and is followed by a space:
\* the position of that space, or 0 when there is no such run.
HexRunEnd(line, h) ==
    LET ends == {e \in (h + 1)..Len(line) :
                    /\ line[e] = " "
                    /\ \A k \in h..(e - 1) : line[k] \in HexDigits}
    IN  IF ends = {} THEN 0 ELSE CHOOSE e \in ends : TRUE

\* digits+ followed by a space, from position from: the positions of that space
DigitsThenSpace(line, from) ==
    {k \in (from + 1)..Len(line) :
        /\ line[k] = " "
        /\ \A j \in from..(k - 1) : line[j] \in Digits}

\* \^?([0-9a-f]+) (?:([^(^)]+)\s+)?(\(.* \d+\)) (.*)   matched from position s
GitHashStart(line, s) == IF line[s] = "^" THEN s + 1 ELSE s

GitMatchesAt(line, s) ==
    LET h == GitHashStart(line, s)
        e == IF h <= Len(line) THEN HexRunEnd(line, h) ELSE 0
    IN  /\ e # 0
        /\ \E p \in (e + 1)..Len(line) :
              /\ line[p] = "("
              /\ \/ p = e + 1
                 \/ /\ p >= e + 3
                    /\ \A k \in (e + 1)..(p - 1) : NotParenOrCaret(line[k])
                    /\ line[p - 1] \in WhiteSpace
              /\ \E q \in (p + 1)..Len(line) :
                    /\ line[q] = " "
                    /\ \E r \in (q + 2)..(Len(line) - 1) :
                          /\ \A k \in (q + 1)..(r - 1) : line[k] \in Digits
                          /\ line[r] = ")"
                          /\ line[r + 1] = " "

\* ([0-9a-f]+) (\d+) (?:\S+ )?(\d+) (.*)   matched from position s
GixMatchesAt(line, s) ==
    LET e == HexRunEnd(line, s)
    IN  /\ e # 0
        /\ \E d \in DigitsThenSpace(line, e + 1) :
              \/ DigitsThenSpace(line, d + 1) # {}
              \/ \E m \in (d + 2)..Len(line) :
                    /\ line[m] = " "
                    /\ \A k \in (d + 1)..(m - 1) : line[k] \notin WhiteSpace
                    /\ DigitsThenSpace(line, m + 1) # {}

GIT_BLAME_RE == "GIT_BLAME_RE"
GIX_BLAME_RE == "GIX_BLAME_RE"

MatchesAt(regex, line, s) ==
    IF regex = GIT_BLAME_RE THEN GitMatchesAt(line, s) ELSE GixMatchesAt(line, s)

\* Regex::captures: the leftmost match; hash is capture group 1.
NoCaptures == [matched |-> FALSE, hash |-> <<>>]

Captures(regex, line) ==
    LET starts == {s \in 1..Len(line) : MatchesAt(regex, line, s)}
    IN  IF starts = {} THEN NoCaptures
        ELSE LET s == CHOOSE x \in starts : \A y \in starts : x <= y
                 h == IF regex = GIT_BLAME_RE THEN GitHashStart(line, s) ELSE s
             IN  [matched |-> TRUE, hash |-> SubSeq(line, h, HexRunEnd(line, h) - 1)]

\* Path::ends_with on the last component of the executable's path
regex_for_executable(executable) ==
    IF executable = "git" THEN [ok |-> TRUE, regex |-> GIT_BLAME_RE]
    ELSE IF executable = "gix" THEN [ok |-> TRUE, regex |-> GIX_BLAME_RE]
    ELSE [ok |-> FALSE, regex |-> "none"]

\* ------------------------------------------------------------------ Outcome
DifferingLineNumbers == [type |-> "DifferingLineNumbers"]
BlamesMatch(n) == [type |-> "BlamesMatch", number_of_matching_lines |-> n]
LineDidNotMatchPattern == [type |-> "LineDidNotMatchPattern"]
LinesPartiallyMatched(n, lines) ==
    [type |-> "LinesPartiallyMatched", number_of_matching_lines |-> n,
     non_matching_lines |-> lines]
FailedToRunExecutable == [type |-> "FailedToRunExecutable"]
\* a panic of the process (Result::expect on an Err): no Outcome is returned
Panic(message) == [type |-> "Panic", message |-> message]

\* ------------------------------------------------- the external invocations
\* What Command::output() gives for one run of bash -c "<executable> blame ..":
\* SpawnError is the Err of output(); Success and Failure are the exit status.
NotRun == [status |-> "NotRun", stdout |-> <<>>]
ProcessOutputs ==
    [status : {"Success", "Failure"}, stdout : Outputs]
        \cup {[status |-> "SpawnError", stdout |-> <<>>]}

\* The comparison executable is run only after the baseline succeeded.
Invocations ==
    {[baseline |-> b, comparison |-> c] :
        b \in {o \in ProcessOutputs : o.status = "Success"}, c \in ProcessOutputs}
    \cup {[baseline |-> b, comparison |-> NotRun] :
        b \in {o \in ProcessOutputs : o.status # "Success"}}

\* ------------------------------------------------------ compare_two_blames
\* a status check that lets every exit status pass
success_ignored(status) == TRUE

\* ExitStatus::success
success(status) == status = "Success"

\* str::starts_with
StartsWith(s, prefix) ==
    /\ Len(prefix) <= Len(s)
    /\ SubSeq(s, 1, Len(prefix)) = prefix

\* a check that accepts an abbreviated comparison hash only
HashesMatchOneWay(baseline_hash, comparison_hash) ==
    StartsWith(baseline_hash, comparison_hash)

\* the test of lines 303-304, negated: the line counts as matching
HashesMatch(baseline_hash, comparison_hash) ==
    ~(/\ ~StartsWith(baseline_hash, comparison_hash)
      /\ ~StartsWith(comparison_hash, baseline_hash))

\* a push of the 1-based line number
PushOneBased(non_matching_lines, line_number) ==
    Append(non_matching_lines, line_number + 1)

\* non_matching_lines.push(line_number)
Push(non_matching_lines, line_number) == Append(non_matching_lines, line_number)

\* a classification without the test for an empty list
FinalOutcomeAlwaysPartial(number_of_matching_lines, non_matching_lines) ==
    LinesPartiallyMatched(number_of_matching_lines, non_matching_lines)

\* lines 312-321: the Outcome once every pair of lines has been compared
FinalOutcome(number_of_matching_lines, non_matching_lines) ==
    IF non_matching_lines = <<>>
    THEN BlamesMatch(number_of_matching_lines)
    ELSE LinesPartiallyMatched(number_of_matching_lines, non_matching_lines)

\* the loop over the zipped lines; line_number is 0-based as in enumerate()
RECURSIVE CompareLines(_, _, _, _, _, _, _)
CompareLines(baseline_regex, comparison_regex, baseline_lines, comparison_lines, line_number, number_of_matching_lines, non_matching_lines) ==
    IF line_number >= Len(baseline_lines) \/ line_number >= Len(comparison_lines)
    THEN FinalOutcome(number_of_matching_lines, non_matching_lines)
    ELSE LET baseline_captures ==
                 Captures(baseline_regex, baseline_lines[line_number + 1])
             comparison_captures ==
                 Captures(comparison_regex, comparison_lines[line_number + 1])
         IN  IF ~baseline_captures.matched THEN LineDidNotMatchPattern
             ELSE IF ~comparison_captures.matched THEN LineDidNotMatchPattern
             ELSE IF ~HashesMatch(baseline_captures.hash, comparison_captures.hash)
                  THEN CompareLines(baseline_regex, comparison_regex,
                                    baseline_lines, comparison_lines, line_number + 1,
                                    number_of_matching_lines,
                                    Push(non_matching_lines, line_number))
                  ELSE CompareLines(baseline_regex, comparison_regex,
                                    baseline_lines, comparison_lines, line_number + 1,
                                    number_of_matching_lines + 1, non_matching_lines)

compare_two_blames(baseline_regex, comparison_regex, runs) ==
    IF runs.baseline.status = "SpawnError"
    THEN Panic("failed to run baseline executable")
    ELSE IF ~success(runs.baseline.status) THEN FailedToRunExecutable
    ELSE IF runs.comparison.status = "SpawnError"
    THEN Panic("failed to run comparison executable")
    ELSE IF ~success(runs.comparison.status) THEN FailedToRunExecutable
    ELSE LET baseline_lines == Lines(runs.baseline.stdout)
             comparison_lines == Lines(runs.comparison.stdout)
         IN  IF ~Decodes(baseline_lines) THEN Panic("could not decode line")
             ELSE IF ~Decodes(comparison_lines) THEN Panic("could not decode line")
             ELSE IF Len(baseline_lines) # Len(comparison_lines)
                  THEN DifferingLineNumbers
                  ELSE CompareLines(baseline_regex, comparison_regex,
                                    baseline_lines, comparison_lines, 0, 0, <<>>)

\* --------------------------------------------------------------------- main
\* The lines git ls-files --format "%(path) %(eolinfo:index)" is taken to
\* print:
\*   ListSpace    a b i/lf      a path with a blank in it: three parts
\*   ListBinary   b i/-text     a file that is not text
\*   ListText     f i/lf        a text file
\*   ListBadUtf8  f<0xFF> i/lf  a path that is not UTF-8
\*   ListText2    g i/crlf      a text file
\*   ListText3    h i/lf        a text file
ListSpace == <<"a", " ", "b", " ", "i", "/", "l", "f">>
ListBinary == <<"b", " ", "i", "/", "-", "t", "e", "x", "t">>
ListText == <<"f", " ", "i", "/", "l", "f">>
ListBadUtf8 == <<"f", InvalidByte, " ", "i", "/", "l", "f">>
ListText2 == <<"g", " ", "i", "/", "c", "r", "l", "f">>
ListText3 == <<"h", " ", "i", "/", "l", "f">>

\* git ls-files lists the paths of the index in order, each once
ListOrder == <<ListSpace, ListBinary, ListText, ListBadUtf8, ListText2, ListText3>>

\* the lines of ListOrder at the positions of chosen, from position i on
RECURSIVE Pick(_, _)
Pick(chosen, i) ==
    IF i > Len(ListOrder) THEN <<>>
    ELSE (IF i \in chosen THEN <<ListOrder[i]>> ELSE <<>>) \o Pick(chosen, i + 1)

\* What Command::output() gives for git ls-files: SpawnError is its Err;
\* otherwise the captured output, whatever the exit status.
Listings ==
    {[status |-> "Exited", stdout |-> RawOutput(Pick(chosen, 1))] :
        chosen \in {c \in SUBSET (1..Len(ListOrder)) : Cardinality(c) <= MaxFiles}}
        \cup {[status |-> "SpawnError", stdout |-> <<>>]}

\* str::split_whitespace from character i on, current being the part read so
\* far: the non-empty runs of characters that are not white space
RECURSIVE SplitWhitespaceRec(_, _, _)
SplitWhitespaceRec(line, i, current) ==
    IF i > Len(line)
    THEN IF current = <<>> THEN <<>> ELSE <<current>>
    ELSE IF line[i] \in WhiteSpace
         THEN (IF current = <<>> THEN <<>> ELSE <<current>>)
                  \o SplitWhitespaceRec(line, i + 1, <<>>)
         ELSE SplitWhitespaceRec(line, i + 1, Append(current, line[i]))

split_whitespace(line) == SplitWhitespaceRec(line, 1, <<>>)

\* str::contains
Contains(s, pattern) ==
    \E i \in 1..(Len(s) - Len(pattern) + 1) :
        SubSeq(s, i, i + Len(pattern) - 1) = pattern

MinusText == <<"-", "t", "e", "x", "t">>

\* the filter_map of lines 69-77 over the lines of the listing
RECURSIVE Filenames(_)
Filenames(lines) ==
    IF lines = <<>> THEN <<>>
    ELSE LET parts == split_whitespace(Head(lines))
         IN  (IF Len(parts) = 2 /\ ~Contains(parts[2], MinusText)
              THEN <<parts[1]>> ELSE <<>>)
                 \o Filenames(Tail(lines))

Executables == {"git", "gix", "sh"}
Regexes == {GIT_BLAME_RE, GIX_BLAME_RE}

\* Option<usize>: None is <<>>, Some(v) is <<v>>
None == <<>>
Some(v) == <<v>>
unwrap_or(option, default) == IF option = None THEN default ELSE option[1]

Min(a, b) == IF a <= b THEN a ELSE b

\* filenames.iter().skip(skip).take(take)
Window(names, to_skip, to_take) ==
    SubSeq(names, to_skip + 1, Min(Len(names), to_skip + to_take))

\* The Outcomes (and panics) compare_two_blames can give for one file, over
\* everything the two external invocations can do.
ResultsGitGit == {compare_two_blames(GIT_BLAME_RE, GIT_BLAME_RE, i) : i \in Invocations}
ResultsGitGix == {compare_two_blames(GIT_BLAME_RE, GIX_BLAME_RE, i) : i \in Invocations}
ResultsGixGit == {compare_two_blames(GIX_BLAME_RE, GIT_BLAME_RE, i) : i \in Invocations}
ResultsGixGix == {compare_two_blames(GIX_BLAME_RE, GIX_BLAME_RE, i) : i \in Invocations}

ResultsOfFile(baseline_regex, comparison_regex) ==
    IF baseline_regex = GIT_BLAME_RE
    THEN (IF comparison_regex = GIT_BLAME_RE THEN ResultsGitGit ELSE ResultsGitGix)
    ELSE (IF comparison_regex = GIT_BLAME_RE THEN ResultsGixGit ELSE ResultsGixGix)

IsBlamesMatch(outcome) == outcome.type = "BlamesMatch"

RECURSIVE CountMatches(_)
CountMatches(pairs) ==
    IF pairs = <<>> THEN 0
    ELSE (IF IsBlamesMatch(Head(pairs)[2]) THEN 1 ELSE 0) + CountMatches(Tail(pairs))

\* usize::clamp
Clamp(v, lo, hi) == IF v < lo THEN lo ELSE IF v > hi THEN hi ELSE v

MaxNonMatchesToShow == 256

\* a fold that counts the matching lines of partial matches only
FoldStepPartialOnly(acc, outcome) ==
    IF outcome.type = "LinesPartiallyMatched"
    THEN <<acc[1] + outcome.number_of_matching_lines,
           acc[2] + Len(outcome.non_matching_lines)>>
    ELSE acc

\* the fold of lines 155-170: acc is (matching lines, non-matching lines)
FoldStep(acc, outcome) ==
    IF outcome.type = "BlamesMatch"
    THEN <<acc[1] + outcome.number_of_matching_lines, acc[2]>>
    ELSE IF outcome.type = "LinesPartiallyMatched"
    THEN <<acc[1] + outcome.number_of_matching_lines,
           acc[2] + Len(outcome.non_matching_lines)>>
    ELSE acc

RECURSIVE Fold(_, _)
Fold(acc, pairs) ==
    IF pairs = <<>> THEN acc
    ELSE Fold(FoldStep(acc, Head(pairs)[2]), Tail(pairs))

\* f32 arithmetic. A finite f32 that is not negative is [m, e], the value
\* m * 2^e with m of at most 24 bits; every operation rounds its exact result
\* to 24 bits, a tie to the even neighbour.
RECURSIVE BitLen(_)
BitLen(n) == IF n = 0 THEN 0 ELSE 1 + BitLen(n \div 2)

\* n / 2^s rounded to an integer, a tie to the even one; inexact says that
\* the exact value is above n
RoundHalfEven(n, s, inexact) ==
    IF s = 0 THEN n
    ELSE LET q == n \div 2^s
             r == n % 2^s
             half == 2^(s - 1)
             up == r > half \/ (r = half /\ (inexact \/ q % 2 = 1))
         IN  IF up THEN q + 1 ELSE q

ToF32(n, e, inexact) ==
    LET s == IF BitLen(n) > 24 THEN BitLen(n) - 24 ELSE 0
    IN  [m |-> RoundHalfEven(n, s, inexact), e |-> e + s]

\* usize as f32
as_f32(n) == ToF32(n, 0, FALSE)

\* the quotient q of a division by b carried on bit by bit, r the remainder
\* and k the number of bits taken after the binary point, until q has the
\* 24 bits of the result and two more to round on
RECURSIVE DivBits(_, _, _, _)
DivBits(q, r, b, k) ==
    IF BitLen(q) >= 26 THEN [q |-> q, r |-> r, k |-> k]
    ELSE IF 2 * r >= b THEN DivBits(2 * q + 1, 2 * r - b, b, k + 1)
    ELSE DivBits(2 * q, 2 * r, b, k + 1)

\* x / y for y # 0
div_f32(x, y) ==
    IF x.m = 0 THEN x
    ELSE LET d == DivBits(x.m \div y.m, x.m % y.m, y.m, 0)
         IN  ToF32(d.q, x.e - y.e - d.k, d.r # 0)

\* x * 100.0
times_100(x) == ToF32(x.m * 100, x.e, FALSE)

\* "{:.2}" of x: the exact value of x rounded to hundredths, a tie to the
\* even one; the number of hundredths
Hundredths(x) ==
    LET n == x.m * 100
    IN  IF x.e >= 0 THEN n * 2^x.e
        ELSE IF -x.e > 31 THEN 0
        ELSE IF -x.e = 31 THEN (IF n > 2^30 THEN 1 ELSE 0)
        ELSE RoundHalfEven(n, -x.e, FALSE)

\* (matching as f32) / (all_lines as f32) * 100.0, as "{:.2}" prints it: the
\* number of hundredths of a percent, or NaN for 0.0 / 0.0
NaN == [kind |-> "NaN"]
Number(hundredths) == [kind |-> "Number", hundredths |-> hundredths]
Percentage(matching, all_lines) ==
    IF all_lines = 0 THEN NaN
    ELSE Number(Hundredths(times_100(div_f32(as_f32(matching), as_f32(all_lines)))))

VARIABLES
    args,           \* the parsed command line
    filenames,      \* the text files git ls-files listed
    pc,             \* where the process is: "start", "listed", "loop", "done"
                    \* in main, "call", "returned" around compare_two_blames,
                    \* "panicked"
    outcomes,       \* the (filename, Outcome) pairs collected so far
    panic,          \* the message of the panic that ended the process, or ""
    summary,        \* what the report printed after the loop
    invocation,     \* compare_two_blames alone: its two external invocations
    result          \* compare_two_blames alone: what it returned

vars == <<args, filenames, pc, outcomes, panic, summary, invocation, result>>

NoSummary == [printed |-> "nothing"]
NoInvocation == [baseline |-> NotRun, comparison |-> NotRun]
NoResult == [type |-> "none"]

ArgsSet ==
    [baseline_executable : Executables, comparison_executable : Executables,
     skip : {None} \cup {Some(n) : n \in 0..MaxSkip},
     take : {None} \cup {Some(n) : n \in 0..MaxFiles}]

Init ==
    /\ args \in ArgsSet
    /\ filenames = <<>>
    /\ pc = "start"
    /\ outcomes = <<>>
    /\ panic = ""
    /\ summary = NoSummary
    /\ invocation = NoInvocation
    /\ result = NoResult

skip == unwrap_or(args.skip, 0)
take == unwrap_or(args.take, Len(filenames))
baseline_regex == regex_for_executable(args.baseline_executable)
comparison_regex == regex_for_executable(args.comparison_executable)
FilesToCompare == Window(filenames, skip, take)

\* main, lines 60-78: git ls-files is run and the text files of its listing
\* are collected, before the executables are looked at
ListFiles ==
    /\ pc = "start"
    /\ \E listing \in Listings :
          IF listing.status = "SpawnError"
          THEN /\ pc' = "panicked"
               /\ panic' = "failed to run git ls-files"
               /\ filenames' = filenames
          ELSE IF ~Decodes(Lines(listing.stdout))
          THEN /\ pc' = "panicked"
               /\ panic' = "could not decode line"
               /\ filenames' = filenames
          ELSE /\ pc' = "listed"
               /\ panic' = panic
               /\ filenames' = Filenames(Lines(listing.stdout))
    /\ UNCHANGED <<args, outcomes, summary, invocation, result>>

\* main, lines 93-96: the regexes are resolved before any file is compared
ResolveRegexes ==
    /\ pc = "listed"
    /\ IF ~baseline_regex.ok
       THEN /\ pc' = "panicked"
            /\ panic' = "baseline executable is not associated with a regex"
       ELSE IF ~comparison_regex.ok
       THEN /\ pc' = "panicked"
            /\ panic' = "comparison executable is not associated with a regex"
       ELSE /\ pc' = "loop"
            /\ panic' = panic
    /\ UNCHANGED <<args, filenames, outcomes, summary, invocation, result>>

\* main, lines 98-115: one step of the map over the window
CompareFile ==
    /\ pc = "loop"
    /\ Len(outcomes) < Len(FilesToCompare)
    /\ \E r \in ResultsOfFile(baseline_regex.regex, comparison_regex.regex) :
          IF r.type = "Panic"
          THEN /\ pc' = "panicked"
               /\ panic' = r.message
               /\ outcomes' = outcomes
          ELSE /\ outcomes' = Append(outcomes, <<FilesToCompare[Len(outcomes) + 1], r>>)
               /\ UNCHANGED <<pc, panic>>
    /\ UNCHANGED <<args, filenames, summary, invocation, result>>

number_of_matches == CountMatches(outcomes)
number_of_non_matches == Len(outcomes) - number_of_matches

\* main, lines 117-126: every file matched
ReportAllMatched ==
    /\ pc = "loop"
    /\ Len(outcomes) = Len(FilesToCompare)
    /\ number_of_non_matches = 0
    /\ summary' = [printed |-> "done, all blames matched"]
    /\ pc' = "done"
    /\ UNCHANGED <<args, filenames, outcomes, panic, invocation, result>>

\* main, lines 127-176: the list of non-matches and the summary
ReportNonMatches ==
    /\ pc = "loop"
    /\ Len(outcomes) = Len(FilesToCompare)
    /\ number_of_non_matches # 0
    /\ LET totals == Fold(<<0, 0>>, outcomes)
           all_lines == totals[1] + totals[2]
       IN  summary' =
             [printed |-> "summary",
              number_of_matches |-> number_of_matches,
              number_of_non_matches |-> number_of_non_matches,
              number_of_non_matches_to_show |->
                  Clamp(number_of_non_matches, 0, MaxNonMatchesToShow),
              number_of_matching_lines |-> totals[1],
              number_of_non_matching_lines |-> totals[2],
              all_lines |-> all_lines,
              percentage |-> Percentage(totals[1], all_lines)]
    /\ pc' = "done"
    /\ UNCHANGED <<args, filenames, outcomes, panic, invocation, result>>

Next ==
    ListFiles \/ ResolveRegexes \/ CompareFile \/ ReportAllMatched \/ ReportNonMatches

Spec == Init /\ [][Next]_vars

\* ------------------------------------- compare_two_blames as a function
\* compare_two_blames on its own: the executables and what the two external
\* invocations do are drawn first, then the function is applied.
InitCompare ==
    /\ args \in {a \in ArgsSet : /\ a.baseline_executable \in {"git", "gix"}
                                 /\ a.comparison_executable \in {"git", "gix"}
                                 /\ a.skip = None /\ a.take = None}
    /\ filenames = <<<<"f">>>>
    /\ pc = "call"
    /\ outcomes = <<>>
    /\ panic = ""
    /\ summary = NoSummary
    /\ invocation \in Invocations
    /\ result = NoResult

CallCompare ==
    /\ pc = "call"
    /\ LET r == compare_two_blames(baseline_regex.regex, comparison_regex.regex,
                                   invocation)
       IN  IF r.type = "Panic"
           THEN /\ pc' = "panicked"
                /\ panic' = r.message
                /\ result' = result
           ELSE /\ pc' = "returned"
                /\ result' = r
                /\ panic' = panic
    /\ UNCHANGED <<args, filenames, outcomes, summary, invocation>>

NextCompare == CallCompare

SpecCompare == InitCompare /\ [][NextCompare]_vars

\* ------------------------------------------------------------ the claims
\* What the claims speak of, stated on the captured bytes and on the parsed
\* hashes rather than through the comparator's own steps.
Returned == pc = "returned"
\* the call is over: it returned an Outcome, or the process panicked in it
Called == pc \in {"returned", "panicked"}
BothSucceed ==
    /\ invocation.baseline.status = "Success"
    /\ invocation.comparison.status = "Success"

\* the number of lines of an output: its line terminators, and a last line
\* that has no terminator
LineCount(bytes) ==
    Cardinality({i \in 1..Len(bytes) : bytes[i] = NewLine})
        + (IF Len(bytes) > 0 /\ bytes[Len(bytes)] # NewLine THEN 1 ELSE 0)

\* a line with nothing in it: a terminator at the start or right after another
HasEmptyLine(bytes) ==
    \E i \in 1..Len(bytes) :
        /\ bytes[i] = NewLine
        /\ (i = 1 \/ bytes[i - 1] = NewLine)

BaselineLines == Lines(invocation.baseline.stdout)
ComparisonLines == Lines(invocation.comparison.stdout)

\* the line is text and matches the format of the executable that printed it
Parses(regex, line) ==
    /\ \A k \in 1..Len(line) : line[k] # InvalidByte
    /\ Captures(regex, line).matched

SameLineCount ==
    LineCount(invocation.baseline.stdout) = LineCount(invocation.comparison.stdout)

EveryLineParses ==
    /\ \A i \in 1..Len(BaselineLines) : Parses(baseline_regex.regex, BaselineLines[i])
    /\ \A i \in 1..Len(ComparisonLines) :
          Parses(comparison_regex.regex, ComparisonLines[i])

SomeLineDoesNotParse == ~EveryLineParses

BaselineHash(i) == Captures(baseline_regex.regex, BaselineLines[i]).hash
ComparisonHash(i) == Captures(comparison_regex.regex, ComparisonLines[i]).hash

IsPrefix(a, b) == /\ Len(a) <= Len(b)
                  /\ \A k \in 1..Len(a) : a[k] = b[k]
Compatible(a, b) == IsPrefix(a, b) \/ IsPrefix(b, a)

\* the 0-based positions whose two hashes are not compatible
IncompatiblePositions ==
    {i \in 0..(Len(BaselineLines) - 1) :
        ~Compatible(BaselineHash(i + 1), ComparisonHash(i + 1))}

\* line i (0-based) was counted as a match by the Outcome that was returned
CountedAsMatch(i) ==
    \/ result.type = "BlamesMatch"
    \/ /\ result.type = "LinesPartiallyMatched"
       /\ \A k \in 1..Len(result.non_matching_lines) : result.non_matching_lines[k] # i

PerFilePanics ==
    {"failed to run baseline executable", "failed to run comparison executable",
     "could not decode line"}

\* C1: a per-file failure never ends the run: the run never stops on a panic
\* raised while a file of the window is compared (a panic with files in the
\* window: a panic of the listing leaves no file), and a finished run has
\* one Outcome per file of the window, in enumeration order.
C1_PerFileFailureNeverEndsRun ==
    /\ ~(pc = "panicked" /\ panic \in PerFilePanics /\ FilesToCompare # <<>>)
    /\ pc = "done" =>
          /\ Len(outcomes) = Len(FilesToCompare)
          /\ \A i \in 1..Len(outcomes) : outcomes[i][1] = FilesToCompare[i]

\* the outputs with their empty lines taken out
WithoutEmptyLines(output) ==
    [status |-> output.status, stdout |-> RawOutput(DropEmpty(Lines(output.stdout)))]

\* C2 as claimed: empty lines are dropped, so the Outcome is the one of the
\* same two outputs without their empty lines.
C2_EmptyLinesDropped ==
    (Called /\ BothSucceed) =>
        LET r == compare_two_blames(baseline_regex.regex, comparison_regex.regex,
                     [baseline |-> WithoutEmptyLines(invocation.baseline),
                      comparison |-> WithoutEmptyLines(invocation.comparison)])
        IN  IF r.type = "Panic" THEN pc = "panicked" ELSE Returned /\ result = r

\* C2 as amended: empty lines are lines: whenever an Outcome is returned for
\* two successful invocations, the empty lines were counted in the line-count
\* comparison, and with equal counts an empty line went to the parser, which
\* rejects it.
C2_EmptyLinesAreLines ==
    (Returned /\ BothSucceed) =>
        /\ ~SameLineCount => result = DifferingLineNumbers
        /\ (/\ SameLineCount
            /\ \/ HasEmptyLine(invocation.baseline.stdout)
               \/ HasEmptyLine(invocation.comparison.stdout))
              => result = LineDidNotMatchPattern

C2_Witness ==
    /\ Returned /\ BothSucceed
    /\ invocation.baseline.stdout = RawOutput(<<LineGit, LineGit>>)
    /\ invocation.comparison.stdout = RawOutput(<<LineGix, LineEmpty>>)
    /\ baseline_regex.regex = GIT_BLAME_RE /\ comparison_regex.regex = GIX_BLAME_RE
    /\ result = LineDidNotMatchPattern

\* C3: when no Matched or PartiallyMatched file has a line, the finished run
\* has computed no percentage.
C3_NoPercentageOnZeroDenominator ==
    (/\ pc = "done"
     /\ \A i \in 1..Len(outcomes) :
           \/ outcomes[i][2].type \notin {"BlamesMatch", "LinesPartiallyMatched"}
           \/ /\ outcomes[i][2].type = "BlamesMatch"
              /\ outcomes[i][2].number_of_matching_lines = 0)
        => "percentage" \notin DOMAIN summary

\* C4: two successful invocations whose outputs have different numbers of
\* lines give DifferingLineNumbers, whatever the lines are.
C4_DifferentLineCountsGiveMismatch ==
    (Called /\ BothSucceed /\ ~SameLineCount) =>
        (Returned /\ result = DifferingLineNumbers)

\* C4 where compare_two_blames returns: different numbers of lines give
\* DifferingLineNumbers, whether or not the lines match their formats.
C4_MismatchWheneverReturned ==
    (Returned /\ BothSucceed /\ ~SameLineCount) => result = DifferingLineNumbers

\* C5: two successful invocations whose outputs have the same number of lines,
\* one of which does not match its format, give LineDidNotMatchPattern.
C5_UnparsedLineGivesParseFailure ==
    (Called /\ BothSucceed /\ SameLineCount /\ SomeLineDoesNotParse)
        => (Returned /\ result = LineDidNotMatchPattern)

\* C5 where compare_two_blames returns: with equal numbers of lines, a line
\* that does not match its format gives LineDidNotMatchPattern.
C5_ParseFailureWheneverReturned ==
    (Returned /\ BothSucceed /\ SameLineCount /\ SomeLineDoesNotParse)
        => result = LineDidNotMatchPattern

\* C6: with two successful invocations, n lines on both sides and every line
\* parsing, the Outcome is BlamesMatch with n matching lines exactly when every
\* pair of hashes is compatible, and LinesPartiallyMatched with a non-empty
\* list otherwise; LinesPartiallyMatched never carries an empty list.
C6_MatchedIffAllCompatible ==
    /\ (Called /\ BothSucceed /\ SameLineCount /\ EveryLineParses) =>
          /\ Returned
          /\ (IncompatiblePositions = {}) <=> (result = BlamesMatch(Len(BaselineLines)))
          /\ (IncompatiblePositions # {}) =>
                /\ result.type = "LinesPartiallyMatched"
                /\ result.non_matching_lines # <<>>
    /\ (Returned /\ result.type = "LinesPartiallyMatched") =>
          result.non_matching_lines # <<>>

C6_Witness ==
    /\ Returned /\ BothSucceed /\ SameLineCount /\ EveryLineParses
    /\ Len(BaselineLines) = 2
    /\ BaselineHash(1) # ComparisonHash(1)
    /\ result = BlamesMatch(2)

\* C7: the list of a LinesPartiallyMatched outcome is strictly increasing, holds
\* exactly the 0-based positions whose hashes are not compatible, and the
\* matching count is the number of the other positions.
C7_MismatchIndices ==
    (Returned /\ result.type = "LinesPartiallyMatched") =>
        LET list == result.non_matching_lines
        IN  /\ \A j, k \in 1..Len(list) : j < k => list[j] < list[k]
            /\ {list[k] : k \in 1..Len(list)} = IncompatiblePositions
            /\ result.number_of_matching_lines = Len(BaselineLines) - Len(list)
            /\ Len(BaselineLines) = Len(ComparisonLines)

C7_Witness ==
    /\ Returned
    /\ result = LinesPartiallyMatched(1, <<1>>)
    /\ IsPrefix(ComparisonHash(1), BaselineHash(1))
    /\ BaselineHash(1) # ComparisonHash(1)

\* the same two invocations with the roles of the executables exchanged
Exchanged == [baseline |-> invocation.comparison, comparison |-> invocation.baseline]

\* C8: a pair of hashes is counted as a match exactly when one is a prefix of
\* the other; the check gives the same answer with its arguments exchanged;
\* hashes of equal length match only when equal.
C8_PrefixCompatibility ==
    (Returned /\ BothSucceed /\ SameLineCount /\ EveryLineParses) =>
        /\ \A i \in 1..Len(BaselineLines) :
              LET a == BaselineHash(i)
                  b == ComparisonHash(i)
              IN  /\ a # <<>> /\ b # <<>>
                  /\ CountedAsMatch(i - 1) <=> (IsPrefix(a, b) \/ IsPrefix(b, a))
                  /\ HashesMatch(a, b) <=> HashesMatch(b, a)
                  /\ Len(a) = Len(b) => (CountedAsMatch(i - 1) <=> a = b)
        /\ result = compare_two_blames(comparison_regex.regex, baseline_regex.regex,
                                       Exchanged)

C8_Witness ==
    /\ Returned /\ BothSucceed /\ SameLineCount /\ EveryLineParses
    /\ Len(BaselineLines) = 1
    /\ Len(BaselineHash(1)) < Len(ComparisonHash(1))
    /\ IsPrefix(BaselineHash(1), ComparisonHash(1))
    /\ result = BlamesMatch(1)

\* the sums the totals are claimed to be
RECURSIVE SumMatching(_)
SumMatching(pairs) ==
    IF pairs = <<>> THEN 0
    ELSE (IF Head(pairs)[2].type \in {"BlamesMatch", "LinesPartiallyMatched"}
          THEN Head(pairs)[2].number_of_matching_lines ELSE 0)
         + SumMatching(Tail(pairs))

RECURSIVE SumMismatched(_)
SumMismatched(pairs) ==
    IF pairs = <<>> THEN 0
    ELSE (IF Head(pairs)[2].type = "LinesPartiallyMatched"
          THEN Len(Head(pairs)[2].non_matching_lines) ELSE 0)
         + SumMismatched(Tail(pairs))

\* C9: the fold gives, for every sequence of outcomes, the sum of the matching
\* counts of the BlamesMatch and LinesPartiallyMatched outcomes and the sum of
\* the list lengths of the LinesPartiallyMatched outcomes; the summary prints
\* these totals.
C9_CorpusTotals ==
    /\ Fold(<<0, 0>>, outcomes) = <<SumMatching(outcomes), SumMismatched(outcomes)>>
    /\ (pc = "done" /\ summary.printed = "summary") =>
          /\ summary.number_of_matching_lines = SumMatching(outcomes)
          /\ summary.number_of_non_matching_lines = SumMismatched(outcomes)
          /\ summary.all_lines = SumMatching(outcomes) + SumMismatched(outcomes)

C9_Witness ==
    /\ pc = "done" /\ summary.printed = "summary"
    /\ Len(outcomes) = 2
    /\ outcomes[1][2] = BlamesMatch(2)
    /\ outcomes[2][2] = LinesPartiallyMatched(1, <<0>>)
    /\ summary.number_of_matching_lines = 3
    /\ summary.number_of_non_matching_lines = 1

\* C10: a non-zero exit status of either invocation gives FailedToRunExecutable,
\* whatever the captured outputs hold.
C10_NonZeroExitGivesExecutionFailure ==
    (/\ Called
     /\ \/ invocation.baseline.status = "Failure"
        \/ invocation.comparison.status = "Failure")
        => (Returned /\ result = FailedToRunExecutable)

C10_Witness ==
    /\ Returned
    /\ invocation.baseline.status = "Success"
    /\ invocation.baseline.stdout = RawOutput(<<LineBadUtf8, LineEmpty>>)
    /\ invocation.comparison.status = "Failure"
    /\ invocation.comparison.stdout = RawOutput(<<LineGix>>)
    /\ result = FailedToRunExecutable

====
